---- MODULE Spec2Model ----
(***************************************************************************)
(* A model of package cjs: ParseExports (exports.go) and RewriteRequires   *)
(* (requires.go).  Go strings are modelled as sequences of byte values     *)
(* (0..255); a source text is such a sequence.  The JavaScript parser the  *)
(* package calls (js.Parse, js.Walk) is an external library: it is         *)
(* modelled on the fragment of JavaScript the inputs are drawn from.       *)
(***************************************************************************)
EXTENDS Integers, Sequences, FiniteSets, TLC

(***************************************************************************)
(* Bytes.  Printable lists the ASCII characters 32..126 in byte order, so  *)
(* that the byte value of the i-th one is 31 + i (byte 96 has a name, not  *)
(* a character).                                                           *)
(***************************************************************************)
Printable ==
    << " ", "!", "\"", "#", "$", "%", "&", "'", "(", ")", "*", "+", ",", "-",
       ".", "/", "0", "1", "2", "3", "4", "5", "6", "7", "8", "9", ":", ";",
       "<", "=", ">", "?", "@", "A", "B", "C", "D", "E", "F", "G", "H", "I",
       "J", "K", "L", "M", "N", "O", "P", "Q", "R", "S", "T", "U", "V", "W",
       "X", "Y", "Z", "[", "\\", "]", "^", "_", "(backtick)", "a", "b", "c", "d", "e",
       "f", "g", "h", "i", "j", "k", "l", "m", "n", "o", "p", "q", "r", "s",
       "t", "u", "v", "w", "x", "y", "z", "{", "|", "}", "~" >>

ByteOf ==
    [c \in {Printable[i] : i \in DOMAIN Printable} \cup {"\t", "\n", "\r"} |->
        IF c = "\t" THEN 9
        ELSE IF c = "\n" THEN 10
        ELSE IF c = "\r" THEN 13
        ELSE 31 + (CHOOSE i \in DOMAIN Printable : Printable[i] = c)]

\* The byte of a character, and the text of a tuple of characters.
B(c) == ByteOf[c]
T(cs) == [i \in DOMAIN cs |-> ByteOf[cs[i]]]

Range(s) == {s[i] : i \in DOMAIN s}
Bytes(cs) == {ByteOf[cs[i]] : i \in DOMAIN cs}

\* s[from..] and s[from..to) with Go's 0-based, half-open bounds.
Slice(s, from, to) == SubSeq(s, from + 1, to)
SliceFrom(s, from) == SubSeq(s, from + 1, Len(s))

\* strings.HasPrefix
HasPrefix(s, p) == Len(p) <= Len(s) /\ \A i \in DOMAIN p : s[i] = p[i]

\* Whether text p occurs in s at 0-based offset at.
OccursAt(s, p, at) ==
    at + Len(p) <= Len(s) /\ \A i \in DOMAIN p : s[at + i] = p[i]

\* The 0-based offsets at which p occurs in s.
Occurrences(s, p) == {at \in 0..Len(s) : OccursAt(s, p, at)}

RECURSIVE Concat(_)
Concat(ss) == IF ss = <<>> THEN <<>> ELSE Head(ss) \o Concat(Tail(ss))


(***************************************************************************)
(* Named bytes and byte classes.                                           *)
(***************************************************************************)
NL == B("\n")
DQ == B("\"")
SQ == B("'")
BSL == B("\\")
SLASH == B("/")
LPAREN == B("(")
SEMI == B(";")
USCORE == B("_")

Digits == Bytes(<<"0", "1", "2", "3", "4", "5", "6", "7", "8", "9">>)
Lower ==
    Bytes(<<"a", "b", "c", "d", "e", "f", "g", "h", "i", "j", "k", "l", "m",
            "n", "o", "p", "q", "r", "s", "t", "u", "v", "w", "x", "y", "z">>)
Upper ==
    Bytes(<<"A", "B", "C", "D", "E", "F", "G", "H", "I", "J", "K", "L", "M",
            "N", "O", "P", "Q", "R", "S", "T", "U", "V", "W", "X", "Y", "Z">>)

\* unicode.IsSpace on a single byte, as bytes.TrimSpace uses it.
TrimSet == {9, 10, 11, 12, 13, 32, 133, 160}
\* The bytes extractDirectivesString skips as whitespace.
DirectiveSpace == Bytes(<<" ", "\t", "\n", "\r">>)
\* The class \s of Go's regexp: [\t\n\f\r ].
RegexpSpace == {9, 10, 12, 13, 32}

\* The least offset >= from (0-based) whose byte is not in set S; Len(s) if none.
SkipSet(s, from, S) ==
    IF from >= Len(s) THEN from
    ELSE CHOOSE k \in from..Len(s) :
            /\ k = Len(s) \/ s[k + 1] \notin S
            /\ \A j \in from..(k - 1) : s[j + 1] \in S

\* The least offset >= from (0-based) whose byte is in set S; Len(s) if none.
FindSet(s, from, S) ==
    IF from >= Len(s) THEN from
    ELSE CHOOSE k \in from..Len(s) :
            /\ k = Len(s) \/ s[k + 1] \in S
            /\ \A j \in from..(k - 1) : s[j + 1] \notin S

\* bytes.TrimSpace
TrimSpace(s) ==
    LET keep == {i \in DOMAIN s : s[i] \notin TrimSet} IN
    IF keep = {} THEN <<>>
    ELSE SubSeq(s, CHOOSE i \in keep : \A j \in keep : i <= j,
                   CHOOSE i \in keep : \A j \in keep : i >= j)

(***************************************************************************)
(* extractShebang (exports.go): the first line that is not blank, when it  *)
(* starts with #!, is split off with a newline appended; the lines after   *)
(* it are the rest.  start is the 0-based offset of the line looked at.    *)
(***************************************************************************)
RECURSIVE extractShebangFrom(_, _)
extractShebangFrom(code, start) ==
    LET eol == FindSet(code, start, {NL})
        line == Slice(code, start, eol)
        trimmed == TrimSpace(line)
    IN  IF Len(trimmed) = 0
        THEN IF eol >= Len(code)
             THEN [shebang |-> <<>>, rest |-> code]
             ELSE extractShebangFrom(code, eol + 1)
        ELSE IF Len(trimmed) >= 2 /\ trimmed[1] = B("#") /\ trimmed[2] = B("!")
             THEN [shebang |-> line \o <<NL>>,
                   rest |-> IF eol >= Len(code) THEN <<>> ELSE SliceFrom(code, eol + 1)]
             ELSE [shebang |-> <<>>, rest |-> code]

extractShebang(code) == extractShebangFrom(code, 0)


(***************************************************************************)
(* js.Parse, the external parser, on the fragment of JavaScript the inputs *)
(* and the generated scaffolding are written in: comments, string,         *)
(* numeric and regular-expression literals, identifiers, punctuation.      *)
(* A token is [t |-> type, d |-> its source text, nl |-> a line break      *)
(* precedes it].                                                           *)
(***************************************************************************)
IdentBytes == Lower \cup Upper \cup Digits \cup Bytes(<<"_", "$">>)
PunctBytes ==
    Bytes(<<"(", ")", "{", "}", "[", "]", ".", ",", ";", ":", "=", "!", "+">>)
OpenBytes == Bytes(<<"(", "{", "[">>)
CloseBytes == Bytes(<<")", "}", "]">>)

Keywords ==
    { T(<<"f", "u", "n", "c", "t", "i", "o", "n">>), T(<<"n", "e", "w">>),
      T(<<"i", "f">>), T(<<"t", "h", "r", "o", "w">>),
      T(<<"r", "e", "t", "u", "r", "n">>), T(<<"c", "o", "n", "s", "t">>),
      T(<<"i", "m", "p", "o", "r", "t">>) }
\* The keywords after which Name( is not a call: a declaration, a new expression.
NotCallAfter == { T(<<"f", "u", "n", "c", "t", "i", "o", "n">>), T(<<"n", "e", "w">>) }
LiteralWords ==
    { T(<<"t", "r", "u", "e">>), T(<<"f", "a", "l", "s", "e">>), T(<<"n", "u", "l", "l">>) }

Tok(type, text, brk) == [t |-> type, d |-> text, nl |-> brk]

\* The offset (0-based) of the unescaped byte q that closes a literal whose
\* content starts at offset from; -1 when the line or the text ends first.
RECURSIVE LiteralEnd(_, _, _)
LiteralEnd(s, from, q) ==
    IF from >= Len(s) \/ s[from + 1] = NL THEN -1
    ELSE IF s[from + 1] = q THEN from
    ELSE IF s[from + 1] = BSL THEN LiteralEnd(s, from + 2, q)
    ELSE LiteralEnd(s, from + 1, q)

\* The tokens of one line from offset at on.  regexOK: a / here starts a
\* regular expression (no operand precedes it); brk: a line break precedes the
\* next token.  Comments are dropped, except the comments that start with //!
\* which the parser keeps as statements.
RECURSIVE LexLine(_, _, _, _)
LexLine(s, from, regexOK, brk) ==
    LET at == SkipSet(s, from, DirectiveSpace) IN
    IF at >= Len(s) THEN <<>>
    ELSE
      LET c == s[at + 1] IN
      IF c = SLASH /\ at + 1 < Len(s) /\ s[at + 2] = SLASH
        THEN IF at + 2 < Len(s) /\ s[at + 3] = B("!")
             THEN <<Tok("Comment", SliceFrom(s, at), brk)>>
             ELSE <<>>
      ELSE IF c \in {DQ, SQ} \/ (c = SLASH /\ regexOK)
        THEN LET close == LiteralEnd(s, at + 1, c) IN
             IF close < 0 THEN <<Tok("Error", <<>>, brk)>>
             ELSE IF c = SLASH
               THEN LET end == SkipSet(s, close + 1, IdentBytes) IN
                    <<Tok("RegExp", Slice(s, at, end), brk)>> \o LexLine(s, end, FALSE, FALSE)
               ELSE <<Tok("String", Slice(s, at, close + 1), brk)>>
                    \o LexLine(s, close + 1, FALSE, FALSE)
      ELSE IF c \in Digits
        THEN LET end == SkipSet(s, at, Digits \cup {B(".")}) IN
             <<Tok("Numeric", Slice(s, at, end), brk)>> \o LexLine(s, end, FALSE, FALSE)
      ELSE IF c \in IdentBytes
        THEN LET end == SkipSet(s, at, IdentBytes)
                 word == Slice(s, at, end)
             IN  <<Tok(IF word \in Keywords THEN "Keyword" ELSE "Ident", word, brk)>>
                 \o LexLine(s, end, word \in Keywords, FALSE)
      ELSE IF c \in PunctBytes
        THEN <<Tok("Punct", <<c>>, brk)>> \o LexLine(s, at + 1, c \notin CloseBytes, FALSE)
      ELSE <<Tok("Error", <<>>, brk)>>

\* The tokens of s, line by line, from the line that starts at offset start.
RECURSIVE Lex(_, _)
Lex(s, start) ==
    IF start >= Len(s) THEN <<>>
    ELSE LET eol == FindSet(s, start, {NL}) IN
         LexLine(Slice(s, start, eol), 0, TRUE, start > 0) \o Lex(s, eol + 1)

IsPunct(tok, c) == tok.t = "Punct" /\ tok.d = <<B(c)>>
IsOpen(tok) == tok.t = "Punct" /\ tok.d[1] \in OpenBytes
IsClose(tok) == tok.t = "Punct" /\ tok.d[1] \in CloseBytes

\* How many brackets are open after toks[k].
Depth(toks, k) ==
    Cardinality({j \in 1..k : IsOpen(toks[j])}) - Cardinality({j \in 1..k : IsClose(toks[j])})

\* Whether the brackets of toks are balanced.
Balanced(toks) ==
    /\ \A k \in DOMAIN toks : Depth(toks, k) >= 0
    /\ Depth(toks, Len(toks)) = 0

\* The index of the bracket that closes the one opened at toks[k]; 0 if none.
MatchClose(toks, k) ==
    LET closers == {m \in (k + 1)..Len(toks) :
                        IsClose(toks[m]) /\ Depth(toks, m) = Depth(toks, k) - 1}
    IN  IF closers = {} THEN 0 ELSE CHOOSE m \in closers : \A n \in closers : m <= n

\* The expression a run of tokens is, as far as the package looks at it:
\* a single literal token is a js.LiteralExpr with its source text as Data.
ExprOf(run) ==
    IF Len(run) = 1 /\ ( run[1].t \in {"String", "Numeric", "RegExp"}
                         \/ (run[1].t = "Ident" /\ run[1].d \in LiteralWords) )
    THEN [kind |-> "LiteralExpr", tt |-> run[1].t, data |-> run[1].d]
    ELSE IF Len(run) = 1 /\ run[1].t = "Ident"
    THEN [kind |-> "Var", tt |-> "Ident", data |-> run[1].d]
    ELSE [kind |-> "Expr", tt |-> "", data |-> <<>>]

\* The arguments between toks[k] and the closing bracket toks[m], split at the
\* commas outside nested brackets; run holds the tokens of the argument so far.
RECURSIVE ArgList(_, _, _, _, _)
ArgList(toks, k, m, depth, run) ==
    IF k >= m THEN IF run = <<>> THEN <<>> ELSE <<ExprOf(run)>>
    ELSE IF depth = 0 /\ IsPunct(toks[k], ",")
      THEN <<ExprOf(run)>> \o ArgList(toks, k + 1, m, 0, <<>>)
    ELSE ArgList(toks, k + 1, m,
                 IF IsOpen(toks[k]) THEN depth + 1
                 ELSE IF IsClose(toks[k]) THEN depth - 1 ELSE depth,
                 Append(run, toks[k]))

\* Whether toks[k] is the ( of a call: Name(...) is a call with a js.Var
\* callee, X.Name(...) one with a js.DotExpr callee.
IsCallAt(toks, k) ==
    /\ k > 1
    /\ IsPunct(toks[k], "(")
    /\ toks[k - 1].t = "Ident"
    /\ ~(k > 2 /\ toks[k - 2].t = "Keyword" /\ toks[k - 2].d \in NotCallAfter)

CallAt(toks, k) ==
    [kind |-> "CallExpr",
     X |-> [kind |-> IF k > 2 /\ IsPunct(toks[k - 2], ".") THEN "DotExpr" ELSE "Var",
            data |-> toks[k - 1].d],
     Args |-> ArgList(toks, k + 1, MatchClose(toks, k), 0, <<>>)]

\* The js.CallExpr nodes of the token sequence from toks[k] on, in the order
\* js.Walk enters them.
RECURSIVE CallNodes(_, _)
CallNodes(toks, k) ==
    LET next == {m \in k..Len(toks) : IsCallAt(toks, m)} IN
    IF next = {} THEN <<>>
    ELSE LET m == CHOOSE m \in next : \A n \in next : m <= n
         IN  <<CallAt(toks, m)>> \o CallNodes(toks, m + 1)

\* The statements that open the program, as ast.BlockStmt.List holds them, up
\* to and including the first that is neither a directive nor a comment.
RECURSIVE LeadingStmts(_, _)
LeadingStmts(toks, k) ==
    IF k > Len(toks) THEN <<>>
    ELSE IF toks[k].t = "Comment"
      THEN <<[kind |-> "Comment"]>> \o LeadingStmts(toks, k + 1)
    ELSE IF toks[k].t = "String" /\ k < Len(toks) /\ IsPunct(toks[k + 1], ";")
      THEN <<[kind |-> "DirectivePrologueStmt"]>> \o LeadingStmts(toks, k + 2)
    ELSE IF toks[k].t = "String"
            /\ (k = Len(toks) \/ (toks[k + 1].nl /\ toks[k + 1].t # "Punct"))
      THEN <<[kind |-> "DirectivePrologueStmt"]>> \o LeadingStmts(toks, k + 1)
    ELSE <<[kind |-> "Stmt"]>>

\* js.Parse: a diagnostic when the text does not lex or its brackets do not
\* balance; else the tree: the opening statements and the nodes of the walk.
Parse(code) ==
    LET toks == Lex(code, 0) IN
    IF (\E k \in DOMAIN toks : toks[k].t = "Error") \/ ~Balanced(toks)
    THEN [err |-> "unexpected token", List |-> <<>>, nodes |-> <<>>]
    ELSE [err |-> "",
          List |-> LeadingStmts(toks, 1),
          nodes |-> SelectSeq(LeadingStmts(toks, 1), LAMBDA n : n.kind # "Stmt")
                    \o CallNodes(toks, 1)]


(***************************************************************************)
(* requires.go: the helpers of RewriteRequires.                            *)
(***************************************************************************)

\* extractStringLiteral (requires.go): the literal's text, without its quotes
\* when it is quoted.
extractStringLiteral(lit) ==
    LET data == lit.data IN
    IF Len(data) >= 2 /\ ( (data[1] = DQ /\ data[Len(data)] = DQ)
                           \/ (data[1] = SQ /\ data[Len(data)] = SQ) )
    THEN Slice(data, 1, Len(data) - 1)
    ELSE data

\* requireVisitor.getFunctionName: the callee's name when it is an identifier.
getFunctionName(call) == IF call.X.kind = "Var" THEN call.X.data ELSE <<>>

\* "import "
ImportKw ==
    T(<<
        "i", "m", "p", "o", "r", "t", " " >>)

\* " from "
FromKw ==
    T(<<
        " ", "f", "r", "o", "m", " " >>)

\* "__cjs_import_"
ImportNameHead ==
    T(<<
        "_", "_", "c", "j", "s", "_", "i", "m", "p", "o", "r", "t", "_" >>)

\* "module"
ModuleName ==
    T(<<
        "m", "o", "d", "u", "l", "e" >>)

\* ",\n\t"
MappingSep ==
    T(<<
        ",", "\n", "\t" >>)

\* the text of the format between the imports and the mapping
InfraHead ==
    T(<<
        "c", "o", "n", "s", "t", " ", "_", "_", "c", "j", "s", "_", "i", "m",
        "p", "o", "r", "t", "s", "_", "_", " ", "=", " ", "{", "\n", "\t" >>)

\* the text of the format after the mapping
InfraTail ==
    T(<<
        ",", "\n", "}", "\n", "f", "u", "n", "c", "t", "i", "o", "n", " ",
        "_", "_", "c", "j", "s", "_", "r", "e", "q", "u", "i", "r", "e", "_",
        "_", "(", "p", "a", "t", "h", ")", " ", "{", "\n", "\t", "c", "o",
        "n", "s", "t", " ", "r", "e", "q", " ", "=", " ", "_", "_", "c", "j",
        "s", "_", "i", "m", "p", "o", "r", "t", "s", "_", "_", "[", "p", "a",
        "t", "h", "]", "\n", "\t", "i", "f", " ", "(", "!", "r", "e", "q",
        ")", " ", "{", "\n", "\t", "\t", "t", "h", "r", "o", "w", " ", "n",
        "e", "w", " ", "E", "r", "r", "o", "r", "(", "\"", "M", "o", "d", "u",
        "l", "e", " ", "n", "o", "t", " ", "f", "o", "u", "n", "d", ":", " ",
        "\"", " ", "+", " ", "p", "a", "t", "h", ")", "\n", "\t", "}", "\n",
        "\t", "r", "e", "t", "u", "r", "n", " ", "r", "e", "q", "\n", "}",
        "\n" >>)

\* "__cjs_require__("
RequireCall ==
    T(<<
        "_", "_", "c", "j", "s", "_", "r", "e", "q", "u", "i", "r", "e", "_",
        "_", "(" >>)

\* The bytes the pattern [^a-zA-Z0-9_] of pathToImportName does not match.
NameBytes == Lower \cup Upper \cup Digits \cup {USCORE}

\* A byte that goes on a UTF-8 encoding.
Continuation(s, i) == i <= Len(s) /\ s[i] >= 128 /\ s[i] <= 191

\* The number of bytes of the rune the regexp decodes at s[i]: those of a
\* valid UTF-8 encoding, and 1 for a byte that starts none.
RuneLen(s, i) ==
    IF s[i] < 128 THEN 1
    ELSE IF s[i] >= 194 /\ s[i] <= 223 /\ Continuation(s, i + 1) THEN 2
    ELSE IF /\ s[i] >= 224 /\ s[i] <= 239
            /\ Continuation(s, i + 1) /\ Continuation(s, i + 2)
            /\ s[i] = 224 => s[i + 1] >= 160
            /\ s[i] = 237 => s[i + 1] <= 159
      THEN 3
    ELSE IF /\ s[i] >= 240 /\ s[i] <= 244
            /\ Continuation(s, i + 1) /\ Continuation(s, i + 2) /\ Continuation(s, i + 3)
            /\ s[i] = 240 => s[i + 1] >= 144
            /\ s[i] = 244 => s[i + 1] <= 143
      THEN 4
    ELSE 1

\* pathToImportName without the replacement of line 148.
KeepFrom(name, i) == SubSeq(name, i, Len(name))

\* pathToImportName, lines 147-148: reg.ReplaceAllString(lastName, "_"), from
\* the rune at name[i] on; each rune the pattern matches becomes one _.
RECURSIVE SanitiseFrom(_, _)
SanitiseFrom(name, i) ==
    IF i > Len(name) THEN <<>>
    ELSE (IF name[i] \in NameBytes THEN <<name[i]>> ELSE <<USCORE>>)
         \o SanitiseFrom(name, i + RuneLen(name, i))

\* A name made from the whole path instead of its last segment.
FullPathName(path) == ImportNameHead \o SanitiseFrom(path, 1) \o <<USCORE, USCORE>>

\* pathToImportName: __cjs_import_<last non-empty segment, sanitised>__
pathToImportName(path) ==
    LET filled == {i \in DOMAIN path : path[i] # SLASH}
        last == CHOOSE i \in filled : \A j \in filled : i >= j
        first == CHOOSE i \in 1..last :
                    /\ \A j \in i..last : path[j] # SLASH
                    /\ i = 1 \/ path[i - 1] = SLASH
        lastName == IF filled = {} THEN ModuleName ELSE SubSeq(path, first, last)
        replaced == SanitiseFrom(lastName, 1)
        named == IF Len(replaced) > 0 /\ replaced[1] \in Digits
                 THEN <<USCORE>> \o replaced ELSE replaced
    IN  ImportNameHead \o named \o <<USCORE, USCORE>>

\* The two hexadecimal digits of a byte, as %q writes them.
HexDigits == T(<<"0", "1", "2", "3", "4", "5", "6", "7", "8", "9", "a", "b", "c", "d", "e", "f">>)
HexOf(b) == <<HexDigits[(b \div 16) + 1], HexDigits[(b % 16) + 1]>>

\* The verb %q on one byte of a string.
QuoteByte(b) ==
    IF b = DQ THEN <<BSL, DQ>>
    ELSE IF b = BSL THEN <<BSL, BSL>>
    ELSE IF b = NL THEN <<BSL, B("n")>>
    ELSE IF b = B("\t") THEN <<BSL, B("t")>>
    ELSE IF b = B("\r") THEN <<BSL, B("r")>>
    ELSE IF b >= 32 /\ b <= 126 THEN <<b>>
    ELSE <<BSL, B("x")>> \o HexOf(b)

\* The verb %q: the string as a double-quoted Go literal.
RECURSIVE QuoteBody(_)
QuoteBody(str) == IF str = <<>> THEN <<>> ELSE QuoteByte(Head(str)) \o QuoteBody(Tail(str))
Quote(str) == <<DQ>> \o QuoteBody(str) \o <<DQ>>

\* RewriteRequires, lines 43-57: the import statements, one per path.
RECURSIVE ImportLines(_)
ImportLines(paths) ==
    IF paths = <<>> THEN <<>>
    ELSE ImportKw \o pathToImportName(Head(paths)) \o FromKw \o Quote(Head(paths)) \o <<NL>>
         \o ImportLines(Tail(paths))

\* RewriteRequires, lines 43-57: the entries of the lookup table, one per path.
RECURSIVE MappingEntries(_, _)
MappingEntries(paths, i) ==
    IF i > Len(paths) THEN <<>>
    ELSE (IF i > 1 THEN MappingSep ELSE <<>>)
         \o Quote(paths[i]) \o <<B(":"), B(" ")>> \o pathToImportName(paths[i])
         \o MappingEntries(paths, i + 1)

\* RewriteRequires, lines 59-70: the generated scaffolding.
Infrastructure(paths) ==
    ImportLines(paths) \o InfraHead \o MappingEntries(paths, 1) \o InfraTail

\* Where the pattern funcName\s*\(\s*(["'])prefix matches s at offset at:
\* the offset after the match and the quote matched; end = -1 when it does not.
MatchAt(s, at, funcName, prefix) ==
    IF ~OccursAt(s, funcName, at) THEN [end |-> -1, quote |-> 0]
    ELSE
      LET open == SkipSet(s, at + Len(funcName), RegexpSpace) IN
      IF open >= Len(s) \/ s[open + 1] # LPAREN THEN [end |-> -1, quote |-> 0]
      ELSE
        LET q == SkipSet(s, open + 1, RegexpSpace) IN
        IF q >= Len(s) \/ s[q + 1] \notin {DQ, SQ} \/ ~OccursAt(s, prefix, q + 1)
        THEN [end |-> -1, quote |-> 0]
        ELSE [end |-> q + 1 + Len(prefix), quote |-> s[q + 1]]

\* re.ReplaceAllStringFunc of replaceRequireCalls for one function name: the
\* matches are taken leftmost first, each search starting after the last match.
RECURSIVE ReplaceAllFrom(_, _, _, _)
ReplaceAllFrom(s, from, funcName, prefix) ==
    LET starts == {at \in from..(Len(s) - 1) : MatchAt(s, at, funcName, prefix).end >= 0} IN
    IF starts = {} THEN SliceFrom(s, from)
    ELSE LET at == CHOOSE a \in starts : \A b \in starts : a <= b
             m == MatchAt(s, at, funcName, prefix)
         IN  Slice(s, from, at) \o RequireCall \o <<m.quote>> \o prefix
             \o ReplaceAllFrom(s, m.end, funcName, prefix)

\* replaceRequireCalls: the loop over the function names, in the order the
\* range over the map funcToPaths yields them.
RECURSIVE ReplaceInOrder(_, _, _)
ReplaceInOrder(result, order, prefix) ==
    IF order = <<>> THEN result
    ELSE ReplaceInOrder(ReplaceAllFrom(result, 0, Head(order), prefix), Tail(order), prefix)

\* The keys of the map funcToPaths.
FuncNames(calls) == {calls[i].funcName : i \in DOMAIN calls}

\* The orders in which a range over a Go map may yield the keys S.
MapOrders(S) ==
    {o \in [1..Cardinality(S) -> S] : \A i, j \in 1..Cardinality(S) : o[i] = o[j] => i = j}

replaceRequireCalls(source, calls, prefix, order) == ReplaceInOrder(source, order, prefix)


\* extractDirectivesString, lines 212-225: the directives among the statements
\* that open the program, comments skipped, up to the first other statement.
DirectiveCount(List) ==
    Cardinality({i \in DOMAIN List :
                    /\ List[i].kind = "DirectivePrologueStmt"
                    /\ \A j \in 1..i : List[j].kind \in {"DirectivePrologueStmt", "Comment"}})

\* extractDirectivesString, lines 253-258: the offset the search for the
\* closing quote stops at.
RECURSIVE ClosingQuote(_, _, _)
ClosingQuote(source, pos, quote) ==
    IF pos < Len(source) /\ source[pos + 1] # quote
    THEN ClosingQuote(source, IF source[pos + 1] = BSL THEN pos + 2 ELSE pos + 1, quote)
    ELSE pos

\* extractDirectivesString, lines 236-276: the loop that collects the text of
\* the directives; it yields the offset reached and the text collected.
RECURSIVE DirectiveLoop(_, _, _, _, _)
DirectiveLoop(source, pos0, foundDirectives, directiveCount, directives) ==
    IF ~(foundDirectives < directiveCount /\ pos0 < Len(source))
    THEN [pos |-> pos0, directives |-> directives]
    ELSE
      LET start == SkipSet(source, pos0, DirectiveSpace) IN
      IF start >= Len(source) THEN [pos |-> start, directives |-> directives]
      ELSE IF source[start + 1] \in {DQ, SQ}
        THEN LET afterQuote == ClosingQuote(source, start + 1, source[start + 1]) + 1
                 pos == SkipSet(source, afterQuote, Bytes(<<" ", "\t">>))
             IN  IF pos < Len(source) /\ source[pos + 1] = SEMI
                 THEN DirectiveLoop(source, pos + 1, foundDirectives + 1, directiveCount,
                                    directives \o Slice(source, start, pos + 1) \o <<NL>>)
                 ELSE DirectiveLoop(source, pos, foundDirectives, directiveCount, directives)
        ELSE [pos |-> start, directives |-> directives]

\* extractDirectivesString: the text of the directives and the source without them.
extractDirectivesString(ast, source) ==
    IF DirectiveCount(ast.List) = 0
    THEN [directives |-> <<>>, code |-> source]
    ELSE LET loop == DirectiveLoop(source, 0, 0, DirectiveCount(ast.List), <<>>)
         IN  [directives |-> loop.directives,
              code |-> SliceFrom(source, SkipSet(source, loop.pos, DirectiveSpace))]


(***************************************************************************)
(* The sources RewriteRequires is run on: an optional shebang line, an     *)
(* optional directive prologue, and up to MaxStmts statements.             *)
(***************************************************************************)
MaxStmts == 2

\* #!n\n
ShebangLine == T(<<"#", "!", "n", "\n">>)
\* "us";\n
UseStrict == T(<<"\"", "u", "s", "\"", ";", "\n">>)
\* "us"\n
UseStrictNoSemi == T(<<"\"", "u", "s", "\"", "\n">>)
\* //c\n"us";\n
CommentedUseStrict == T(<<"/", "/", "c", "\n", "\"", "u", "s", "\"", ";", "\n">>)
\* //!\n"us";\n
BangCommentUseStrict == T(<<"/", "/", "!", "\n", "\"", "u", "s", "\"", ";", "\n">>)
\* r("/p/a");\n
CallA == T(<<"r", "(", "\"", "/", "p", "/", "a", "\"", ")", ";", "\n">>)
\* r('/p/b');\n
CallBSingle == T(<<"r", "(", "'", "/", "p", "/", "b", "'", ")", ";", "\n">>)
\* r ( "/p/a" );\n
CallSpaced == T(<<"r", " ", "(", " ", "\"", "/", "p", "/", "a", "\"", " ", ")", ";", "\n">>)
\* mr("/p/b");\n
CallLonger == T(<<"m", "r", "(", "\"", "/", "p", "/", "b", "\"", ")", ";", "\n">>)
\* r("./l");\n
CallLocal == T(<<"r", "(", "\"", ".", "/", "l", "\"", ")", ";", "\n">>)
\* o.r("/p/c");\n
CallMember == T(<<"o", ".", "r", "(", "\"", "/", "p", "/", "c", "\"", ")", ";", "\n">>)
\* r(/p/g);\n
CallRegExp == T(<<"r", "(", "/", "p", "/", "g", ")", ";", "\n">>)
\* r("/p/a", 1);\n
CallTwoArgs == T(<<"r", "(", "\"", "/", "p", "/", "a", "\"", ",", " ", "1", ")", ";", "\n">>)
\* g("r('/p/d')");\n
CallInString == T(<<"g", "(", "\"", "r", "(", "'", "/", "p", "/", "d", "'", ")", "\"", ")", ";", "\n">>)
\* r("/p/b"), r("/p/a");\n
CallTwice == T(<<"r", "(", "\"", "/", "p", "/", "b", "\"", ")", ",", " ", "r", "(", "\"", "/", "p", "/", "a", "\"", ")", ";", "\n">>)
\* r(\n
Malformed == T(<<"r", "(", "\n">>)
\* /p/
PrefixP == T(<<"/", "p", "/">>)
\* ./
PrefixDot == T(<<".", "/">>)

Shebangs == {<<>>, ShebangLine}
Prologues == {<<>>, UseStrict, UseStrictNoSemi, CommentedUseStrict, BangCommentUseStrict}
\* r("/p/\x61");\n
CallEscaped ==
    T(<<"r", "(", "\"", "/", "p", "/", "\\", "x", "6", "1", "\"", ")", ";", "\n">>)
\* r("/p/b/a");\n
CallNested == T(<<"r", "(", "\"", "/", "p", "/", "b", "/", "a", "\"", ")", ";", "\n">>)

Statements ==
    {CallA, CallBSingle, CallSpaced, CallLonger, CallLocal, CallMember, CallRegExp,
     CallTwoArgs, CallInString, CallTwice, Malformed, CallEscaped, CallNested}
Prefixes == {PrefixP, PrefixDot}

SeqsUpTo(S, n) == UNION {[1..k -> S] : k \in 0..n}

\* The path the caller names the source by (used in error messages only).
FilePath == "test.js"
NoError == [path |-> "", cause |-> ""]
\* An error that does not name the path.
ErrorWithoutPath(path, cause) == [path |-> "", cause |-> cause]
\* fmt.Errorf("cjs: failed to parse %s: %w", path, err)
ParseError(path, cause) == [path |-> path, cause |-> cause]

(***************************************************************************)
(* exports.go: the escape decoder.                                         *)
(***************************************************************************)

\* string(rune): the UTF-8 encoding of a code point; the replacement
\* character U+FFFD for a value that is no code point.
EncodeRune(r) ==
    IF r < 0 \/ r > 1114111 \/ (r >= 55296 /\ r <= 57343) THEN <<239, 191, 189>>
    ELSE IF r < 128 THEN <<r>>
    ELSE IF r < 2048 THEN <<192 + (r \div 64), 128 + (r % 64)>>
    ELSE IF r < 65536
      THEN <<224 + (r \div 4096), 128 + ((r \div 64) % 64), 128 + (r % 64)>>
    ELSE <<240 + (r \div 262144), 128 + ((r \div 4096) % 64),
           128 + ((r \div 64) % 64), 128 + (r % 64)>>

OctalDigits == Bytes(<<"0", "1", "2", "3", "4", "5", "6", "7">>)
HexLetters == Bytes(<<"a", "b", "c", "d", "e", "f">>)
HexCapitals == Bytes(<<"A", "B", "C", "D", "E", "F">>)
\* The digits fmt accepts for the verb %x, and the ones strconv.ParseInt does.
ScanHexBytes == Digits \cup HexLetters \cup HexCapitals \cup {USCORE}

DigitValue(b) ==
    IF b \in Digits THEN b - B("0")
    ELSE IF b \in HexLetters THEN b - B("a") + 10
    ELSE b - B("A") + 10

\* The value of a run of digits in the base.
RECURSIVE DigitsValue(_, _, _)
DigitsValue(digs, base, acc) ==
    IF digs = <<>> THEN acc
    ELSE DigitsValue(Tail(digs), base, acc * base + DigitValue(Head(digs)))

Floor0(n) == IF n > 0 THEN n ELSE 0

\* rune(val): the low 32 bits of val as a signed number, val being given by
\* its sign and the two low halves of 16 bits of its magnitude.  Every
\* negative rune is returned as -1.
SignedRune(hi, lo, negative) ==
    IF ~negative THEN (IF hi >= 32768 THEN -1 ELSE hi * 65536 + lo)
    ELSE IF lo = 0
      THEN (IF (65536 - hi) % 65536 >= 32768 THEN -1 ELSE ((65536 - hi) % 65536) * 65536)
    ELSE IF 65535 - hi >= 32768 THEN -1
    ELSE (65535 - hi) * 65536 + (65536 - lo)

\* strconv.ParseInt on the digits fmt has read (sig: those after the leading
\* zeros), then rune(val); val stays zero when the digits do not parse.
ParseRune(run, sig, base, negative) ==
    IF \/ run = <<>>
       \/ USCORE \in Range(run)
       \/ Len(sig) > 16
       \/ Len(sig) = 16 /\ DigitValue(sig[1]) >= 8
    THEN 0
    ELSE IF base = 8 THEN (IF negative THEN -1 ELSE DigitsValue(run, 8, 0))
    ELSE SignedRune(DigitsValue(Slice(sig, Floor0(Len(sig) - 8), Floor0(Len(sig) - 4)), 16, 0),
                    DigitsValue(SliceFrom(sig, Floor0(Len(sig) - 4)), 16, 0),
                    negative)

ScanDigitRun(run, base, negative) ==
    ParseRune(run, SliceFrom(run, SkipSet(run, 0, {B("0")})), base, negative)

\* fmt's scanNumber: the longest run of digits from start on.
ScanDigits(text, base, start, negative) ==
    ScanDigitRun(Slice(text, start,
                       SkipSet(text, start,
                               IF base = 8 THEN OctalDigits \cup {USCORE} ELSE ScanHexBytes)),
                 base, negative)

\* fmt's scanInt after the spaces: a sign is accepted.
ScanSigned(text, base, from) ==
    IF from < Len(text) /\ text[from + 1] \in Bytes(<<"+", "-">>)
    THEN ScanDigits(text, base, from + 1, text[from + 1] = B("-"))
    ELSE ScanDigits(text, base, from, FALSE)

\* rune(val) after fmt.Sscanf(text, "%o" or "%x", &val) with val zero before.
ScanRune(text, base) == ScanSigned(text, base, SkipSet(text, 0, Bytes(<<" ", "\t", "\r">>)))

Emit(out, next) == [out |-> out, next |-> next]

\* unescapeJSString, lines 371-396: an octal escape whose digits end at end.
OctalEscape(s, i, end) == Emit(EncodeRune(ScanRune(Slice(s, i + 1, end), 8)), end)

\* unescapeJSString, lines 410-426: \u{ with the offset of the closing brace.
BraceEscape(s, i, end) ==
    IF end < Len(s)
    THEN Emit(EncodeRune(ScanRune(Slice(s, i + 3, end), 16)), end + 1)
    ELSE Emit(<<B("u")>>, i + 2)

\* unescapeJSString, one turn of its loop at a backslash at offset i that is
\* followed by the byte c.
EscapeStep(s, i, c) ==
    IF c = B("n") THEN Emit(<<10>>, i + 2)
    ELSE IF c = B("t") THEN Emit(<<9>>, i + 2)
    ELSE IF c = B("r") THEN Emit(<<13>>, i + 2)
    ELSE IF c = B("b") THEN Emit(<<8>>, i + 2)
    ELSE IF c = B("f") THEN Emit(<<12>>, i + 2)
    ELSE IF c = B("v") THEN Emit(<<11>>, i + 2)
    ELSE IF c = B("0") /\ ~(i + 2 < Len(s) /\ s[i + 3] \in OctalDigits)
      THEN Emit(<<0>>, i + 2)
    ELSE IF c \in OctalDigits
      THEN OctalEscape(s, i, SkipSet(Slice(s, 0, IF i + 4 < Len(s) THEN i + 4 ELSE Len(s)),
                                     i + 1, OctalDigits))
    ELSE IF c = B("x")
      THEN IF i + 3 < Len(s)
           THEN Emit(EncodeRune(ScanRune(Slice(s, i + 2, i + 4), 16)), i + 4)
           ELSE Emit(<<B("x")>>, i + 2)
    ELSE IF c = B("u")
      THEN IF i + 2 < Len(s) /\ s[i + 3] = B("{")
           THEN BraceEscape(s, i, FindSet(s, i + 3, {B("}")}))
           ELSE IF i + 5 < Len(s)
           THEN Emit(EncodeRune(ScanRune(Slice(s, i + 2, i + 6), 16)), i + 6)
           ELSE Emit(<<B("u")>>, i + 2)
    ELSE Emit(EncodeRune(c), i + 2)

\* unescapeJSString, one turn of its loop at offset i: the runes appended
\* (encoded) and the offset the loop goes on from.
unescapeStep(s, i) ==
    IF s[i + 1] # BSL THEN Emit(EncodeRune(s[i + 1]), i + 1)
    ELSE IF i + 1 >= Len(s) THEN Emit(<<BSL>>, Len(s))
    ELSE EscapeStep(s, i, s[i + 2])

\* unescapeJSString, from offset i on.
RECURSIVE unescapeFrom(_, _)
unescapeFrom(s, i) ==
    IF i >= Len(s) THEN <<>>
    ELSE unescapeStep(s, i).out \o unescapeFrom(s, unescapeStep(s, i).next)

unescapeJSString(s) == unescapeFrom(s, 0)


(***************************************************************************)
(* exports.go: the syntax tree js.Parse hands to the walk.  A node is a    *)
(* record whose kind names its Go type; Data fields hold source text.      *)
(***************************************************************************)
Nil == [kind |-> "nil"]
Var(data) == [kind |-> "Var", Data |-> data]
\* *js.LiteralExpr: a literal, Data being its raw text (quotes included).
LiteralExpr(data) == [kind |-> "LiteralExpr", Data |-> data]
\* The property name after a dot.
LiteralValue(data) == [kind |-> "LiteralValue", Data |-> data]
DotExpr(x, y) == [kind |-> "DotExpr", X |-> x, Y |-> LiteralValue(y)]
IndexExpr(x, y) == [kind |-> "IndexExpr", X |-> x, Y |-> y]
BinaryExpr(op, x, y) == [kind |-> "BinaryExpr", Op |-> op, X |-> x, Y |-> y]
CallExpr(x, args) == [kind |-> "CallExpr", X |-> x, Args |-> args]
ObjectExpr(list) == [kind |-> "ObjectExpr", List |-> list]
NoName == [set |-> FALSE, Literal |-> <<>>, Computed |-> Nil]
PropertyName(literal) == [set |-> TRUE, Literal |-> literal, Computed |-> Nil]
ComputedName(expr) == [set |-> TRUE, Literal |-> <<>>, Computed |-> expr]
Property(name, value) ==
    [kind |-> "Property", Name |-> name, Value |-> value, Spread |-> FALSE]
SpreadProperty(value) ==
    [kind |-> "Property", Name |-> NoName, Value |-> value, Spread |-> TRUE]
FuncDecl(body) == [kind |-> "FuncDecl", Body |-> body]
ArrowFunc(body) == [kind |-> "ArrowFunc", Body |-> body]
MethodDecl(name, get, body) ==
    [kind |-> "MethodDecl", Name |-> name, Get |-> get, Body |-> body]
ReturnStmt(value) == [kind |-> "ReturnStmt", Value |-> value]
ExprStmt(value) == [kind |-> "ExprStmt", Value |-> value]

\* js.Walk: the nodes in the order Enter is called on them.
Children(n) ==
    CASE n.kind \in {"BinaryExpr", "DotExpr", "IndexExpr"} -> <<n.X, n.Y>>
      [] n.kind = "CallExpr" -> <<n.X>> \o n.Args
      [] n.kind = "ObjectExpr" -> n.List
      [] n.kind = "Property" ->
            (IF n.Name.Computed.kind # "nil" THEN <<n.Name.Computed>> ELSE <<>>)
            \o <<n.Value>>
      [] n.kind \in {"FuncDecl", "ArrowFunc", "MethodDecl"} -> n.Body
      [] n.kind \in {"ReturnStmt", "ExprStmt"} ->
            IF n.Value.kind # "nil" THEN <<n.Value>> ELSE <<>>
      [] OTHER -> <<>>

RECURSIVE Walk(_)
Walk(n) ==
    LET below == Children(n) IN
    <<n>> \o Concat([i \in 1..Len(below) |-> Walk(below[i])])

WalkAll(list) == Concat([i \in 1..Len(list) |-> Walk(list[i])])

ExportsName == T(<<"e", "x", "p", "o", "r", "t", "s">>)
ModuleIdent == T(<<"m", "o", "d", "u", "l", "e">>)
ObjectName == T(<<"O", "b", "j", "e", "c", "t">>)
DefinePropertyName == T(<<"d", "e", "f", "i", "n", "e", "P", "r", "o", "p", "e", "r", "t", "y">>)
DefaultName == T(<<"d", "e", "f", "a", "u", "l", "t">>)
GetName == T(<<"g", "e", "t">>)
ValueName == T(<<"v", "a", "l", "u", "e">>)
EnumerableName == T(<<"e", "n", "u", "m", "e", "r", "a", "b", "l", "e">>)
FalseText == T(<<"f", "a", "l", "s", "e">>)
TrueText == T(<<"t", "r", "u", "e">>)

(***************************************************************************)
(* exports.go: the helpers of exportVisitor.  The visitor v is the record  *)
(* of its fields; a Go map[string]bool holding only true is a set.         *)
(***************************************************************************)
isExportsIdent(expr) == expr.kind = "Var" /\ expr.Data = ExportsName
isModuleIdent(expr) == expr.kind = "Var" /\ expr.Data = ModuleIdent
isObjectIdent(expr) == expr.kind = "Var" /\ expr.Data = ObjectName
isExportsField(expr) == expr.kind \in {"Var", "LiteralValue"} /\ expr.Data = ExportsName
isDefinePropertyField(expr) ==
    expr.kind \in {"Var", "LiteralValue"} /\ expr.Data = DefinePropertyName
isModuleExports(expr) ==
    expr.kind = "DotExpr" /\ isModuleIdent(expr.X) /\ isExportsField(expr.Y)

IsQuoted(data) ==
    /\ Len(data) >= 2
    /\ \/ data[1] = DQ /\ data[Len(data)] = DQ
       \/ data[1] = SQ /\ data[Len(data)] = SQ

\* exportVisitor.extractStringLiteral
exportVisitor_extractStringLiteral(expr) ==
    IF expr.kind = "LiteralExpr" /\ IsQuoted(expr.Data)
    THEN unescapeJSString(Slice(expr.Data, 1, Len(expr.Data) - 1))
    ELSE <<>>

extractPropertyName(name) ==
    IF ~name.set THEN <<>>
    ELSE IF name.Computed.kind # "nil" THEN exportVisitor_extractStringLiteral(name.Computed)
    ELSE IF IsQuoted(name.Literal)
      THEN unescapeJSString(Slice(name.Literal, 1, Len(name.Literal) - 1))
    ELSE name.Literal

\* The loop of isSafeGetter and of isSafeGetterMethod over the statements of a body.
ReturnsMember(body) ==
    \E i \in 1..Len(body) :
        /\ body[i].kind = "ReturnStmt"
        /\ body[i].Value.kind \in {"DotExpr", "IndexExpr", "Var"}

isSafeGetter(expr) ==
    /\ expr.kind = "FuncDecl"
    /\ Len(expr.Body) # 0
    /\ ReturnsMember(expr.Body)

isSafeGetterMethod(method) ==
    /\ Len(method.Body) # 0
    /\ ReturnsMember(method.Body)

\* extractObjectKeys, from property i on.
RECURSIVE extractObjectKeysFrom(_, _, _)
extractObjectKeysFrom(v, List, i) ==
    IF i > Len(List) THEN v
    ELSE LET prop == List[i]
             keyName == extractPropertyName(prop.Name)
         IN  IF prop.Spread \/ ~prop.Name.set \/ keyName = <<>>
             THEN extractObjectKeysFrom(v, List, i + 1)
             ELSE extractObjectKeysFrom([v EXCEPT !.exports = @ \cup {keyName}], List, i + 1)

extractObjectKeys(v, obj) == extractObjectKeysFrom(v, obj.List, 1)

\* shouldExportDefineProperty, lines 147-186: one turn of the loop over the
\* properties of the descriptor; unsafe tells that the function returns here.
DescriptorStep(prop, seen) ==
    LET keyName == extractPropertyName(prop.Name)
        early == [seen EXCEPT !.unsafe = TRUE, !.hasGetter = TRUE]
    IN  IF prop.Value.kind = "MethodDecl"
        THEN IF prop.Value.Name = GetName \/ prop.Value.Get
             THEN IF ~isSafeGetterMethod(prop.Value) THEN early
                  ELSE [seen EXCEPT !.hasGetter = TRUE]
             ELSE seen
        ELSE IF ~prop.Name.set THEN seen
        ELSE IF keyName = GetName
        THEN IF ~isSafeGetter(prop.Value) THEN early ELSE [seen EXCEPT !.hasGetter = TRUE]
        ELSE IF keyName = ValueName THEN [seen EXCEPT !.hasValue = TRUE]
        ELSE IF /\ keyName = EnumerableName
                /\ prop.Value.kind = "LiteralExpr"
                /\ prop.Value.Data = FalseText
        THEN [seen EXCEPT !.enumerableFalse = TRUE]
        ELSE seen

\* The loop itself, from property i on.
RECURSIVE DescriptorLoop(_, _, _)
DescriptorLoop(List, i, seen) ==
    IF i > Len(List) \/ seen.unsafe THEN seen
    ELSE DescriptorLoop(List, i + 1, DescriptorStep(List[i], seen))

\* shouldExportDefineProperty keeping no mark: an unsafe getter takes the
\* name out of the exports and a later mention adds it again.
LastMentionWins(v, name, seen) ==
    IF seen.unsafe
    THEN [v |-> [v EXCEPT !.exports = @ \ {name}], export |-> FALSE]
    ELSE IF seen.hasGetter /\ seen.enumerableFalse
    THEN [v |-> v, export |-> FALSE]
    ELSE [v |-> v, export |-> seen.hasValue \/ seen.hasGetter]

\* shouldExportDefineProperty, lines 153-200, with what the loop has seen: the
\* visitor afterwards and the value returned.
ShouldExportAfter(v, name, seen) ==
    IF seen.unsafe
    THEN [v |-> [v EXCEPT !.unsafeGetters = @ \cup {name}], export |-> FALSE]
    ELSE IF name \in v.unsafeGetters
    THEN [v |-> [v EXCEPT !.exports = @ \ {name}], export |-> FALSE]
    ELSE IF seen.hasGetter /\ seen.enumerableFalse
    THEN [v |-> v, export |-> FALSE]
    ELSE [v |-> v, export |-> seen.hasValue \/ seen.hasGetter]

shouldExportDefineProperty(v, obj, name) ==
    ShouldExportAfter(v, name,
                      DescriptorLoop(obj.List, 1,
                                     [unsafe |-> FALSE, hasGetter |-> FALSE,
                                      hasValue |-> FALSE, enumerableFalse |-> FALSE]))

\* module.exports = right
AssignModuleExports(v, right) ==
    LET w == [v EXCEPT !.hasDefaultExport = TRUE] IN
    IF right.kind = "ObjectExpr" THEN extractObjectKeys(w, right) ELSE w

handleAssignment(v, left, right) ==
    IF left.kind = "DotExpr"
    THEN IF isExportsIdent(left.X) \/ isModuleExports(left.X)
         THEN [v EXCEPT !.exports = @ \cup {left.Y.Data}]
         ELSE IF isModuleIdent(left.X) /\ isExportsField(left.Y)
         THEN AssignModuleExports(v, right)
         ELSE v
    ELSE IF left.kind = "IndexExpr"
    THEN IF /\ isExportsIdent(left.X) \/ isModuleExports(left.X)
            /\ exportVisitor_extractStringLiteral(left.Y) # <<>>
         THEN [v EXCEPT !.exports = @ \cup {exportVisitor_extractStringLiteral(left.Y)}]
         ELSE v
    ELSE IF isModuleExports(left) THEN AssignModuleExports(v, right)
    ELSE v

\* handleCallExpr, lines 131-133: the name is exported when should tells so.
ExportIfShould(should, name) ==
    IF should.export THEN [should.v EXCEPT !.exports = @ \cup {name}] ELSE should.v

\* handleCallExpr, lines 127-135, with the name of the second argument.
DefineNamed(v, call, name) ==
    IF name # <<>> /\ call.Args[3].kind = "ObjectExpr"
    THEN ExportIfShould(shouldExportDefineProperty(v, call.Args[3], name), name)
    ELSE v

handleCallExpr(v, call) ==
    IF /\ call.X.kind = "DotExpr"
       /\ isObjectIdent(call.X.X)
       /\ isDefinePropertyField(call.X.Y)
       /\ Len(call.Args) >= 3
       /\ isExportsIdent(call.Args[1]) \/ isModuleExports(call.Args[1])
    THEN DefineNamed(v, call, exportVisitor_extractStringLiteral(call.Args[2]))
    ELSE v

\* exportVisitor.Enter, lines 69-72
EnterCallExpr(v, n) == IF n.kind = "CallExpr" THEN handleCallExpr(v, n) ELSE v

\* exportVisitor.Enter
exportVisitor_Enter(v, n) ==
    EnterCallExpr(IF n.kind = "BinaryExpr" /\ n.Op = "=" THEN handleAssignment(v, n.X, n.Y)
                  ELSE v,
                  n)

\* The order of sort.Strings: byte by byte.
StringLess(a, b) ==
    \E k \in 0..(Len(b) - 1) :
        /\ k <= Len(a)
        /\ \A j \in 1..k : a[j] = b[j]
        /\ k = Len(a) \/ a[k + 1] < b[k + 1]

RECURSIVE InsertSorted(_, _)
InsertSorted(sorted, x) ==
    IF sorted = <<>> THEN <<x>>
    ELSE IF StringLess(x, Head(sorted)) THEN <<x>> \o sorted
    ELSE <<Head(sorted)>> \o InsertSorted(Tail(sorted), x)

RECURSIVE SortStrings(_)
SortStrings(list) ==
    IF list = <<>> THEN <<>>
    ELSE InsertSorted(SortStrings(Tail(list)), Head(list))

\* ParseExports without lines 32-35.
KeepUnsafe(exported, unsafe) == exported

\* ParseExports, lines 32-35: the names marked unsafe are deleted.
PurgeUnsafe(exported, unsafe) == exported \ unsafe

\* ParseExports, lines 37-49, with the map iterated in the given order.
ExportsSlice(order, hasDefault) ==
    SortStrings(order \o (IF hasDefault THEN <<DefaultName>> ELSE <<>>))


(***************************************************************************)
(* The programs ParseExports is run on: up to MaxExportStmts statements,   *)
(* each one of the export idioms below.                                    *)
(***************************************************************************)
MaxExportStmts == 2

NameA == T(<<"a">>)
NameB == T(<<"b">>)
\* 'a'
QuotedA == T(<<"'", "a", "'">>)
\* "b"
QuotedB == T(<<"\"", "b", "\"">>)
\* 'default'
QuotedDefault == T(<<"'", "d", "e", "f", "a", "u", "l", "t", "'">>)
One == T(<<"1">>)
ExportsVar == Var(ExportsName)
ModuleExports == DotExpr(Var(ModuleIdent), ExportsName)
ObjectDefineProperty == DotExpr(Var(ObjectName), DefinePropertyName)
Assign(left, right) == ExprStmt(BinaryExpr("=", left, right))
DefineProperty(target, name, descriptor) ==
    ExprStmt(CallExpr(ObjectDefineProperty, <<target, LiteralExpr(name), ObjectExpr(descriptor)>>))
\* return q.p;
ReturnMember == ReturnStmt(DotExpr(Var(T(<<"q">>)), T(<<"p">>)))
\* return dynamic();
ReturnCall == ReturnStmt(CallExpr(Var(T(<<"d", "y", "n", "a", "m", "i", "c">>)), <<>>))
EnumerableTrue == Property(PropertyName(EnumerableName), LiteralExpr(TrueText))
EnumerableFalse == Property(PropertyName(EnumerableName), LiteralExpr(FalseText))

\* exports.a = 1
AssignDot == Assign(DotExpr(ExportsVar, NameA), LiteralExpr(One))
\* exports["b"] = 1
AssignIndex == Assign(IndexExpr(ExportsVar, LiteralExpr(QuotedB)), LiteralExpr(One))
\* module.exports.a = 1
AssignModuleDot == Assign(DotExpr(ModuleExports, NameA), LiteralExpr(One))
\* exports.default = x
AssignDefaultName == Assign(DotExpr(ExportsVar, DefaultName), Var(T(<<"x">>)))
\* module.exports = x
AssignModule == Assign(ModuleExports, Var(T(<<"x">>)))
\* module.exports = {a, "b": c, ...s}
AssignModuleObject ==
    Assign(ModuleExports,
           ObjectExpr(<<Property(PropertyName(NameA), Var(NameA)),
                        Property(PropertyName(QuotedB), Var(T(<<"c">>))),
                        SpreadProperty(Var(T(<<"s">>)))>>))
\* exports = x
AssignPlain == Assign(ExportsVar, Var(T(<<"x">>)))
\* Object.defineProperty(exports, 'a', {enumerable: true, get: function () { return q.p; }})
DefineSafe ==
    DefineProperty(ExportsVar, QuotedA,
                   <<EnumerableTrue,
                     Property(PropertyName(GetName), FuncDecl(<<ReturnMember>>))>>)
\* Object.defineProperty(exports, 'a', {get: function () { return dynamic(); }})
DefineUnsafe ==
    DefineProperty(ExportsVar, QuotedA,
                   <<Property(PropertyName(GetName), FuncDecl(<<ReturnCall>>))>>)
\* Object.defineProperty(module.exports, 'default', {get() { return dynamic(); }})
DefineUnsafeDefault ==
    DefineProperty(ModuleExports, QuotedDefault,
                   <<Property(NoName, MethodDecl(GetName, FALSE, <<ReturnCall>>))>>)
\* Object.defineProperty(exports, "b", {value: 1})
DefineValue ==
    DefineProperty(ExportsVar, QuotedB,
                   <<Property(PropertyName(ValueName), LiteralExpr(One))>>)
\* Object.defineProperty(exports, 'a', {enumerable: false, get: function () { return q.p; }})
DefineHidden ==
    DefineProperty(ExportsVar, QuotedA,
                   <<EnumerableFalse,
                     Property(PropertyName(GetName), FuncDecl(<<ReturnMember>>))>>)

\* module.exports = {a, b() {}}
AssignModuleMethod ==
    Assign(ModuleExports,
           ObjectExpr(<<Property(PropertyName(NameA), Var(NameA)),
                        Property(NoName, MethodDecl(NameB, FALSE, <<>>))>>))

\* Object.defineProperty(exports, "b", {get: () => q.p})
DefineArrow ==
    DefineProperty(ExportsVar, QuotedB,
                   <<Property(PropertyName(GetName), ArrowFunc(<<ReturnMember>>))>>)
\* Object.defineProperty(exports, "b", {get: function () { dynamic(); return q.p; }})
DefineCallThenReturn ==
    DefineProperty(ExportsVar, QuotedB,
                   <<Property(PropertyName(GetName),
                              FuncDecl(<<ExprStmt(ReturnCall.Value), ReturnMember>>))>>)
\* Object.defineProperty(exports, 'a', {get() { return external; }})
DefineMethod ==
    DefineProperty(ExportsVar, QuotedA,
                   <<Property(NoName,
                              MethodDecl(GetName, FALSE,
                                         <<ReturnStmt(Var(T(<<"e", "x", "t", "e", "r", "n", "a", "l">>)))>>))>>)

\* Object.defineProperty(exports, 'a', {enumerable: false, value: 1})
DefineHiddenValue ==
    DefineProperty(ExportsVar, QuotedA,
                   <<EnumerableFalse, Property(PropertyName(ValueName), LiteralExpr(One))>>)

ExportStatements ==
    {AssignDot, AssignIndex, AssignModuleDot, AssignDefaultName, AssignModule,
     AssignModuleObject, AssignPlain, DefineSafe, DefineUnsafe, DefineUnsafeDefault,
     DefineValue, DefineHidden, AssignModuleMethod, DefineArrow, DefineCallThenReturn,
     DefineMethod, DefineHiddenValue}

\* What js.Parse returns: a tree, or the diagnostic of a source it rejects.
ParseOutcomes ==
    {[err |-> "", ast |-> stmts] : stmts \in SeqsUpTo(ExportStatements, MaxExportStmts)}
    \cup {[err |-> "unexpected token", ast |-> <<>>]}

VARIABLES
    pc,            \* RewriteRequires: "idle", "call", "walk", "done"
    given,         \* how the source of the first invocation was put together
    source,        \* the argument source
    prefix,        \* the argument prefix
    shebang,       \* the local shebang
    directives,    \* the local directives
    body,          \* the local codeWithoutDirectives
    nodes,         \* the nodes js.Walk has yet to enter
    requires,      \* visitor.requires
    pathOrder,     \* visitor.pathOrder
    requireCalls,  \* visitor.requireCalls
    output,        \* the text returned
    err,           \* the error returned
    round,         \* "first", or how the second invocation got its source
    first,         \* the text the first invocation returned
    epc,           \* ParseExports: "idle", "call", "walk", "done"
    parsed,        \* what js.Parse returns for the code after its shebang
    todo,          \* the nodes js.Walk has yet to enter
    visitor,       \* the exportVisitor
    result,        \* the names returned (isNil: the nil slice)
    exportsErr,    \* the error returned
    eround,        \* "first", or how the second invocation got its program
    efirst,        \* the names the first invocation returned
    upc,           \* unescapeJSString: "idle", "loop", "done"
    us,            \* the argument s
    ui,            \* the local i
    uresult,       \* the local result, each rune encoded as string(result) does
    npc,           \* pathToImportName: "idle", "call", "done"
    npath,         \* the argument path
    nname          \* the name returned

rvars ==
    <<pc, given, source, prefix, shebang, directives, body, nodes, requires, pathOrder,
      requireCalls, output, err, round, first>>

evars == <<epc, parsed, todo, visitor, result, exportsErr, eround, efirst>>

uvars == <<upc, us, ui, uresult>>

nvars == <<npc, npath, nname>>

fvars == <<uvars, nvars>>

vars == <<rvars, evars, fvars>>

NoVisitor == [exports |-> {}, unsafeGetters |-> {}, hasDefaultExport |-> FALSE]
NilSlice == [isNil |-> TRUE, names |-> <<>>]

\* unescapeJSString is not running.
UnescapeIdle ==
    /\ upc = "idle"
    /\ us = <<>>
    /\ ui = 0
    /\ uresult = <<>>

\* pathToImportName is not running.
ImportNameIdle ==
    /\ npc = "idle"
    /\ npath = <<>>
    /\ nname = <<>>

\* ParseExports is not running.
ExportsIdle ==
    /\ epc = "idle"
    /\ parsed = [err |-> "", ast |-> <<>>]
    /\ todo = <<>>
    /\ visitor = NoVisitor
    /\ result = NilSlice
    /\ exportsErr = NoError
    /\ eround = "first"
    /\ efirst = NilSlice

InitRequires ==
    /\ \E sb \in Shebangs, pro \in Prologues, stmts \in SeqsUpTo(Statements, MaxStmts) :
        /\ given = [shebang |-> sb, prologue |-> pro, stmts |-> stmts]
        /\ source = sb \o pro \o Concat(stmts)
    /\ prefix \in Prefixes
    /\ pc = "call"
    /\ shebang = <<>>
    /\ directives = <<>>
    /\ body = <<>>
    /\ nodes = <<>>
    /\ requires = {}
    /\ pathOrder = <<>>
    /\ requireCalls = <<>>
    /\ output = <<>>
    /\ err = NoError
    /\ round = "first"
    /\ first = <<>>
    /\ ExportsIdle
    /\ UnescapeIdle
    /\ ImportNameIdle

\* RewriteRequires, lines 12-32: the shebang is split off, the rest parsed; on
\* a parse error the call returns, else the directives are split off and the
\* walk starts with a fresh visitor.
RewriteRequiresCall ==
    /\ pc = "call"
    /\ LET sb == extractShebang(source)
           ast == Parse(sb.rest)
           split == extractDirectivesString(ast, sb.rest)
       IN  IF ast.err # ""
           THEN /\ output' = <<>>
                /\ err' = ParseError(FilePath, ast.err)
                /\ pc' = "done"
                /\ UNCHANGED <<shebang, directives, body, nodes>>
           ELSE /\ shebang' = sb.shebang
                /\ directives' = split.directives
                /\ body' = split.code
                /\ nodes' = ast.nodes
                /\ pc' = "walk"
                /\ UNCHANGED <<output, err>>
    /\ requires' = {}
    /\ pathOrder' = <<>>
    /\ requireCalls' = <<>>
    /\ UNCHANGED <<given, source, prefix, round, first>>
    /\ UNCHANGED <<evars, fvars>>

\* requireVisitor.Enter putting a new path first.
PrependPath(order, seen, pathStr) ==
    IF pathStr \notin seen THEN <<pathStr>> \o order ELSE order

\* requireVisitor.Enter, lines 102-105: a path not seen before is appended.
AppendPath(order, seen, pathStr) ==
    IF pathStr \notin seen THEN Append(order, pathStr) ELSE order

\* requireVisitor.Enter on the next node of the walk.
Enter ==
    /\ pc = "walk"
    /\ nodes # <<>>
    /\ LET n == Head(nodes) IN
       IF /\ n.kind = "CallExpr"
          /\ Len(n.Args) = 1
          /\ n.Args[1].kind = "LiteralExpr"
          /\ HasPrefix(extractStringLiteral(n.Args[1]), prefix)
       THEN LET pathStr == extractStringLiteral(n.Args[1])
                funcName == getFunctionName(n)
            IN  /\ pathOrder' = AppendPath(pathOrder, requires, pathStr)
                /\ requires' = requires \cup {pathStr}
                /\ requireCalls' = IF funcName # <<>>
                                   THEN Append(requireCalls,
                                               [funcName |-> funcName, path |-> pathStr])
                                   ELSE requireCalls
       ELSE UNCHANGED <<pathOrder, requires, requireCalls>>
    /\ nodes' = Tail(nodes)
    /\ UNCHANGED <<pc, given, source, prefix, shebang, directives, body, output, err,
                   round, first>>
    /\ UNCHANGED <<evars, fvars>>

\* RewriteRequires, lines 34-76, once the walk is over: the source itself
\* when no path was collected, else shebang, directives, scaffolding and the
\* body with its calls replaced.
RewriteRequiresReturn ==
    /\ pc = "walk"
    /\ nodes = <<>>
    /\ IF Cardinality(requires) = 0
       THEN output' = source
       ELSE \E order \in MapOrders(FuncNames(requireCalls)) :
               output' = shebang \o directives \o Infrastructure(pathOrder)
                         \o replaceRequireCalls(body, requireCalls, prefix, order)
    /\ err' = NoError
    /\ pc' = "done"
    /\ UNCHANGED <<given, source, prefix, shebang, directives, body, nodes, requires,
                   pathOrder, requireCalls, round, first>>
    /\ UNCHANGED <<evars, fvars>>

\* The caller invokes RewriteRequires a second time with the same arguments.
InvokeAgain ==
    /\ pc = "done"
    /\ round = "first"
    /\ first' = output
    /\ round' = "same"
    /\ pc' = "call"
    /\ UNCHANGED <<given, source, prefix, shebang, directives, body, nodes, requires,
                   pathOrder, requireCalls, output, err>>
    /\ UNCHANGED <<evars, fvars>>

\* The caller invokes RewriteRequires on the text the first invocation returned.
InvokeOnOutput ==
    /\ pc = "done"
    /\ round = "first"
    /\ err = NoError
    /\ first' = output
    /\ round' = "output"
    /\ source' = output
    /\ pc' = "call"
    /\ UNCHANGED <<given, prefix, shebang, directives, body, nodes, requires,
                   pathOrder, requireCalls, output, err>>
    /\ UNCHANGED <<evars, fvars>>

NextRequires ==
    \/ RewriteRequiresCall
    \/ Enter
    \/ RewriteRequiresReturn
    \/ InvokeAgain
    \/ InvokeOnOutput

SpecRequires == InitRequires /\ [][NextRequires]_vars

\* RewriteRequires is not running.
RequiresIdle ==
    /\ pc = "idle"
    /\ given = [shebang |-> <<>>, prologue |-> <<>>, stmts |-> <<>>]
    /\ source = <<>>
    /\ prefix = <<>>
    /\ shebang = <<>>
    /\ directives = <<>>
    /\ body = <<>>
    /\ nodes = <<>>
    /\ requires = {}
    /\ pathOrder = <<>>
    /\ requireCalls = <<>>
    /\ output = <<>>
    /\ err = NoError
    /\ round = "first"
    /\ first = <<>>

InitExports ==
    /\ parsed \in ParseOutcomes
    /\ epc = "call"
    /\ todo = <<>>
    /\ visitor = NoVisitor
    /\ result = NilSlice
    /\ exportsErr = NoError
    /\ eround = "first"
    /\ efirst = NilSlice
    /\ RequiresIdle
    /\ UnescapeIdle
    /\ ImportNameIdle

\* ParseExports, lines 12-25: on a parse error the call returns, else the walk
\* starts with a fresh visitor.
ParseExportsCall ==
    /\ epc = "call"
    /\ IF parsed.err # ""
       THEN /\ result' = NilSlice
            /\ exportsErr' = ParseError(FilePath, parsed.err)
            /\ epc' = "done"
            /\ UNCHANGED todo
       ELSE /\ todo' = WalkAll(parsed.ast)
            /\ epc' = "walk"
            /\ UNCHANGED <<result, exportsErr>>
    /\ visitor' = NoVisitor
    /\ UNCHANGED <<parsed, eround, efirst>>
    /\ UNCHANGED <<rvars, fvars>>

\* exportVisitor.Enter on the next node of the walk.
EnterExports ==
    /\ epc = "walk"
    /\ todo # <<>>
    /\ visitor' = exportVisitor_Enter(visitor, Head(todo))
    /\ todo' = Tail(todo)
    /\ UNCHANGED <<epc, parsed, result, exportsErr, eround, efirst>>
    /\ UNCHANGED <<rvars, fvars>>

\* ParseExports, lines 27-49, once the walk is over.
ParseExportsReturn ==
    /\ epc = "walk"
    /\ todo = <<>>
    /\ LET kept == PurgeUnsafe(visitor.exports, visitor.unsafeGetters) IN
       /\ visitor' = [visitor EXCEPT !.exports = kept]
       /\ \E order \in MapOrders(kept) :
            result' = [isNil |-> FALSE,
                       names |-> ExportsSlice(order, visitor.hasDefaultExport)]
    /\ exportsErr' = NoError
    /\ epc' = "done"
    /\ UNCHANGED <<parsed, todo, eround, efirst>>
    /\ UNCHANGED <<rvars, fvars>>

\* The caller invokes ParseExports on the same statements in another order.
InvokePermuted ==
    /\ epc = "done"
    /\ eround = "first"
    /\ exportsErr = NoError
    /\ \E order \in MapOrders(DOMAIN parsed.ast) :
        /\ order # [i \in DOMAIN parsed.ast |-> i]
        /\ parsed' = [parsed EXCEPT !.ast = [i \in DOMAIN order |-> parsed.ast[order[i]]]]
    /\ efirst' = result
    /\ eround' = "permuted"
    /\ epc' = "call"
    /\ UNCHANGED <<todo, visitor, result, exportsErr>>
    /\ UNCHANGED <<rvars, fvars>>

\* The caller invokes ParseExports on the same statements, one of them
\* written a second time at the end.
InvokeRepeated ==
    /\ epc = "done"
    /\ eround = "first"
    /\ exportsErr = NoError
    /\ \E i \in DOMAIN parsed.ast :
        parsed' = [parsed EXCEPT !.ast = Append(parsed.ast, parsed.ast[i])]
    /\ efirst' = result
    /\ eround' = "repeated"
    /\ epc' = "call"
    /\ UNCHANGED <<todo, visitor, result, exportsErr>>
    /\ UNCHANGED <<rvars, fvars>>

NextExports ==
    \/ ParseExportsCall
    \/ EnterExports
    \/ ParseExportsReturn
    \/ InvokePermuted
    \/ InvokeRepeated

SpecExports == InitExports /\ [][NextExports]_vars


(***************************************************************************)
(* pathToImportName on its own: the paths are the byte strings of up to    *)
(* MaxPathLen bytes of PathBytes, and the scoped path of TestScopedPackage. *)
(***************************************************************************)
MaxPathLen == 3

\* / a 1 @ and the two bytes of U+00E9
PathBytes == {SLASH, B("a"), B("1"), B("@"), 195, 169}

\* /node_modules/@babel/core
ScopedPath ==
    T(<<"/", "n", "o", "d", "e", "_", "m", "o", "d", "u", "l", "e", "s", "/",
        "@", "b", "a", "b", "e", "l", "/", "c", "o", "r", "e">>)

ImportPaths == SeqsUpTo(PathBytes, MaxPathLen) \cup {ScopedPath}

InitImportName ==
    /\ npath \in ImportPaths
    /\ npc = "call"
    /\ nname = <<>>
    /\ UnescapeIdle
    /\ RequiresIdle
    /\ ExportsIdle

\* pathToImportName is called and returns.
pathToImportNameCall ==
    /\ npc = "call"
    /\ nname' = pathToImportName(npath)
    /\ npc' = "done"
    /\ UNCHANGED <<npath, uvars, rvars, evars>>

NextImportName == pathToImportNameCall

SpecImportName == InitImportName /\ [][NextImportName]_vars


(***************************************************************************)
(* unescapeJSString on its own: the strings are made of up to MaxPieces    *)
(* of the pieces below.                                                    *)
(***************************************************************************)
MaxPieces == 4

\* \x  \u  41  4  g  {  }  \  and U+00E9
EscapePieces ==
    {<<BSL, B("x")>>, <<BSL, B("u")>>, T(<<"4", "1">>), T(<<"4">>), T(<<"g">>),
     T(<<"{">>), T(<<"}">>), <<BSL>>, <<195, 169>>}

EscapeInputs == {Concat(pieces) : pieces \in SeqsUpTo(EscapePieces, MaxPieces)}

InitUnescape ==
    /\ us \in EscapeInputs
    /\ upc = "loop"
    /\ ui = 0
    /\ uresult = <<>>
    /\ ImportNameIdle
    /\ RequiresIdle
    /\ ExportsIdle

\* unescapeJSString, lines 338-453: one turn of the loop.
unescapeLoop ==
    /\ upc = "loop"
    /\ ui < Len(us)
    /\ uresult' = uresult \o unescapeStep(us, ui).out
    /\ ui' = unescapeStep(us, ui).next
    /\ UNCHANGED <<upc, us, nvars, rvars, evars>>

\* unescapeJSString, line 454: the loop is over.
unescapeReturn ==
    /\ upc = "loop"
    /\ ui >= Len(us)
    /\ upc' = "done"
    /\ UNCHANGED <<us, ui, uresult, nvars, rvars, evars>>

NextUnescape ==
    \/ unescapeLoop
    \/ unescapeReturn

SpecUnescape == InitUnescape /\ [][NextUnescape]_vars


(***************************************************************************)
(* Either function is called.                                              *)
(***************************************************************************)
Init == InitRequires \/ InitExports

Next == NextRequires \/ NextExports

Spec == Init /\ [][Next]_vars


(***************************************************************************)
(* Properties of ParseExports.                                             *)
(***************************************************************************)
ExportsDone == epc = "done" /\ exportsErr = NoError

\* The names a statement marks unsafe when it is the whole program: those of
\* an Object.defineProperty call on exports or module.exports whose
\* descriptor has an unsafe getter.
MarksUnsafe(stmt) ==
    IF stmt.Value.kind = "CallExpr"
    THEN handleCallExpr(NoVisitor, stmt.Value).unsafeGetters
    ELSE {}

UnsafeNames == UNION {MarksUnsafe(parsed.ast[i]) : i \in DOMAIN parsed.ast}

IsSorted(names) ==
    \A i \in 1..(Len(names) - 1) : ~StringLess(names[i + 1], names[i])

\* C2: the names ParseExports returns are sorted and none occurs twice.
SortedWithoutDuplicates ==
    ExportsDone =>
        /\ IsSorted(result.names)
        /\ \A i, j \in DOMAIN result.names : result.names[i] = result.names[j] => i = j

(***************************************************************************)
(* Properties of RewriteRequires.                                          *)
(***************************************************************************)
\* What js.Parse makes of the source after its shebang.
ParsedSource == Parse(extractShebang(source).rest)

\* A qualifying call: exactly one argument, a string literal that starts
\* with the prefix.
IsQualifying(n) ==
    /\ n.kind = "CallExpr"
    /\ Len(n.Args) = 1
    /\ n.Args[1].kind = "LiteralExpr"
    /\ n.Args[1].tt = "String"
    /\ HasPrefix(extractStringLiteral(n.Args[1]), prefix)

QualifyingCalls == SelectSeq(ParsedSource.nodes, IsQualifying)

QualifyingPaths ==
    [i \in DOMAIN QualifyingCalls |-> extractStringLiteral(QualifyingCalls[i].Args[1])]

\* Every path the walk has collected is that of a qualifying call.
OnlyQualifyingPaths == requires \subseteq Range(QualifyingPaths)

\* A first invocation that has rewritten its source, all of its paths being
\* those of qualifying calls.
Rewritten ==
    /\ pc = "done"
    /\ round = "first"
    /\ err = NoError
    /\ requires # {}
    /\ OnlyQualifyingPaths

FirstAt(text, part) ==
    CHOOSE at \in Occurrences(text, part) : \A other \in Occurrences(text, part) : at <= other

\* C3: a source that parses and holds no qualifying call is returned as it
\* is, with no error.
SourceKeptWithoutQualifyingCall ==
    (pc = "done" /\ ParsedSource.err = "" /\ QualifyingCalls = <<>>)
        => (output = source /\ err = NoError)

\* C4: RewriteRequires run on its own output with the same prefix returns
\* that output unchanged.
StableOnOwnOutput ==
    (pc = "done" /\ round = "output" /\ OnlyQualifyingPaths)
        => (err = NoError /\ output = source)

\* C5: a second invocation with the same source and prefix returns the same
\* text as the first.
SameTextTwice ==
    (pc = "done" /\ round = "same" /\ OnlyQualifyingPaths) => output = first

\* The body as RewriteRequires emits it: the output after the shebang, the
\* directives and the scaffolding.
EmittedBody ==
    SliceFrom(output, Len(shebang) + Len(directives) + Len(Infrastructure(pathOrder)))

\* __cjs_require__
RequireIdent == Slice(RequireCall, 0, Len(RequireCall) - 1)

\* C6: each path discovered has exactly one import statement and exactly one
\* entry of the table, and each qualifying call with an identifier as callee
\* is emitted as a call of __cjs_require__ with the argument it had.
OneImportAndEveryCallRewritten ==
    Rewritten =>
        /\ \A i \in DOMAIN pathOrder :
            /\ Cardinality(Occurrences(output, FromKw \o Quote(pathOrder[i]) \o <<NL>>)) = 1
            /\ Cardinality(Occurrences(output, Quote(pathOrder[i]) \o <<B(":"), B(" ")>>)) = 1
        /\ LET before == CallNodes(Lex(body, 0), 1)
               after == CallNodes(Lex(EmittedBody, 0), 1)
           IN  /\ Len(after) = Len(before)
               /\ \A i \in DOMAIN before :
                    (IsQualifying(before[i]) /\ before[i].X.kind = "Var")
                        => /\ after[i].X = [kind |-> "Var", data |-> RequireIdent]
                           /\ after[i].Args = before[i].Args

\* The call in which a qualifying path occurs first.
FirstCall(paths, p) ==
    CHOOSE i \in DOMAIN paths : paths[i] = p /\ \A j \in 1..(i - 1) : paths[j] # p

ImportOf(p) == ImportKw \o pathToImportName(p) \o FromKw \o Quote(p) \o <<NL>>
EntryOf(p) == Quote(p) \o <<B(":"), B(" ")>> \o pathToImportName(p)

\* C7: the import statements and the entries of the table are in the order
\* in which the walk first enters a qualifying call with each path: the
\* import and the entry of p precede those of q exactly when p is entered
\* first, however often either path occurs again.
ImportsInDiscoveryOrder ==
    (pc = "done" /\ err = NoError /\ requires # {}) =>
        LET paths == QualifyingPaths
            importAt == [i \in DOMAIN paths |-> Occurrences(output, ImportOf(paths[i]))]
            entryAt == [i \in DOMAIN paths |-> Occurrences(output, EntryOf(paths[i]))]
            Least(S) == CHOOSE at \in S : \A other \in S : at <= other
        IN  /\ \A i \in DOMAIN paths : importAt[i] # {} /\ entryAt[i] # {}
            /\ \A i, j \in DOMAIN paths :
                paths[i] # paths[j] =>
                    LET iFirst == FirstCall(paths, paths[i]) < FirstCall(paths, paths[j]) IN
                    /\ iFirst <=> Least(importAt[i]) < Least(importAt[j])
                    /\ iFirst <=> Least(entryAt[i]) < Least(entryAt[j])

\* C7: a path occurs again after another path was discovered.
PathSeenAgainLater ==
    /\ Rewritten
    /\ LET paths == QualifyingPaths IN
       \E i, j, k \in DOMAIN paths :
        /\ i < j /\ j < k
        /\ paths[i] = paths[k]
        /\ paths[i] # paths[j]
    /\ Len(pathOrder) = 2

\* The statements of the source that are one call with one string literal
\* that does not start with the prefix.
IsNonQualifying(stmt) ==
    LET calls == CallNodes(Lex(stmt, 0), 1) IN
    /\ Len(calls) = 1
    /\ Len(calls[1].Args) = 1
    /\ calls[1].Args[1].kind = "LiteralExpr"
    /\ calls[1].Args[1].tt = "String"
    /\ ~HasPrefix(extractStringLiteral(calls[1].Args[1]), prefix)

\* C8: a call whose string literal does not start with the prefix is in the
\* output byte for byte.
NonQualifyingCallKept ==
    Rewritten =>
        \A i \in DOMAIN given.stmts :
            IsNonQualifying(given.stmts[i]) => Occurrences(output, given.stmts[i]) # {}

\* "us"
DirectiveText == Slice(UseStrict, 0, 4)

OnceBeforeScaffolding(part) ==
    /\ Cardinality(Occurrences(output, part)) = 1
    /\ FirstAt(output, part) < FirstAt(output, ImportKw)

\* C9: when a source with a shebang line or a directive is rewritten, the
\* shebang and the directive each occur once in the output, before the
\* scaffolding.
ShebangAndDirectiveOnceInFront ==
    Rewritten =>
        /\ given.shebang # <<>> => OnceBeforeScaffolding(given.shebang)
        /\ given.prologue # <<>> => OnceBeforeScaffolding(DirectiveText)

(***************************************************************************)
(* Properties of both functions.                                           *)
(***************************************************************************)
\* C10: either function returns an error exactly when the parse of the source
\* after its shebang fails; the error then holds the path given and the
\* diagnostic of the parser, and the other result is nil or the empty string.
ErrorExactlyOnParseFailure ==
    /\ epc = "done" =>
        /\ exportsErr # NoError <=> parsed.err # ""
        /\ exportsErr = NoError => ~result.isNil
        /\ exportsErr # NoError =>
            /\ exportsErr.path = FilePath
            /\ exportsErr.cause = parsed.err
            /\ result = NilSlice
    /\ pc = "done" =>
        /\ err # NoError <=> ParsedSource.err # ""
        /\ err # NoError =>
            /\ err.path = FilePath
            /\ err.cause = ParsedSource.err
            /\ output = <<>>

\* C10: RewriteRequires has returned the error of a source that does not parse.
ParseFailureReturned ==
    /\ pc = "done"
    /\ ParsedSource.err # ""
    /\ err # NoError
    /\ output = <<>>

(***************************************************************************)
(* Properties of the export idioms.                                        *)
(***************************************************************************)
IsModuleExportsAssign(n) == n.kind = "BinaryExpr" /\ n.Op = "=" /\ n.X = ModuleExports

\* The key a property of an object literal has in the source text: the name
\* of the method for a method definition, else the decoded property name.
KeyOf(prop) ==
    IF prop.Value.kind = "MethodDecl" THEN prop.Value.Name
    ELSE extractPropertyName(prop.Name)

\* The non-empty keys of the properties of an object literal that are not
\* spread entries; none for any other expression.
NamedKeys(rhs) ==
    IF rhs.kind = "ObjectExpr"
    THEN {KeyOf(rhs.List[i]) : i \in {j \in DOMAIN rhs.List : ~rhs.List[j].Spread}} \ {<<>>}
    ELSE {}

\* C11: entering an assignment module.exports = RHS sets hasDefaultExport and
\* adds to the exports exactly the non-empty keys of the non-spread properties
\* of RHS when RHS is an object literal, and nothing when it is not; the names
\* returned for a source with such an assignment hold "default".
ModuleExportsAssigned ==
    /\ [](ExportsDone =>
            ((\E i \in DOMAIN parsed.ast : IsModuleExportsAssign(parsed.ast[i].Value))
                => DefaultName \in Range(result.names)))
    /\ [][(epc = "walk" /\ todo # <<>> /\ IsModuleExportsAssign(Head(todo))) =>
            /\ visitor'.hasDefaultExport
            /\ visitor'.exports = visitor.exports \cup NamedKeys(Head(todo).Y)
            /\ visitor'.unsafeGetters = visitor.unsafeGetters]_vars

\* A call Object.defineProperty(exports|module.exports, NAME, {...}).
IsDefineOnExports(n) ==
    /\ n.kind = "CallExpr"
    /\ n.X = ObjectDefineProperty
    /\ Len(n.Args) = 3
    /\ n.Args[1] \in {ExportsVar, ModuleExports}
    /\ exportVisitor_extractStringLiteral(n.Args[2]) # <<>>
    /\ n.Args[3].kind = "ObjectExpr"

DefinedName(n) == exportVisitor_extractStringLiteral(n.Args[2])

\* The getters of a descriptor: the values of its get properties and its
\* methods named get.
GettersOf(descriptor) ==
    {descriptor.List[i].Value : i \in {j \in DOMAIN descriptor.List : KeyOf(descriptor.List[j]) = GetName}}

\* A function of any form whose body is one statement, the return of a
\* dotted or indexed member access or of an identifier.
SoleReturnOfMember(fn) ==
    /\ fn.kind \in {"FuncDecl", "ArrowFunc", "MethodDecl"}
    /\ Len(fn.Body) = 1
    /\ fn.Body[1].kind = "ReturnStmt"
    /\ fn.Body[1].Value.kind \in {"DotExpr", "IndexExpr", "Var"}

HasEnumerableFalse(descriptor) ==
    \E i \in DOMAIN descriptor.List :
        /\ KeyOf(descriptor.List[i]) = EnumerableName
        /\ descriptor.List[i].Value = LiteralExpr(FalseText)

\* C12: entering Object.defineProperty(exports|module.exports, NAME, D) for a
\* NAME not yet marked unsafe, D having a getter: when the body of the getter
\* is anything but the sole return of a member access, NAME is marked unsafe;
\* when it is that sole return, whatever the form of the function, NAME is
\* not marked and, D not saying enumerable: false, NAME is exported.
GetterJudgedBySoleReturn ==
    [][(/\ epc = "walk" /\ todo # <<>>
        /\ IsDefineOnExports(Head(todo))
        /\ GettersOf(Head(todo).Args[3]) # {}
        /\ DefinedName(Head(todo)) \notin visitor.unsafeGetters) =>
            LET name == DefinedName(Head(todo))
                D == Head(todo).Args[3]
            IN  IF \A g \in GettersOf(D) : SoleReturnOfMember(g)
                THEN /\ name \notin visitor'.unsafeGetters
                     /\ ~HasEnumerableFalse(D) => name \in visitor'.exports
                ELSE name \in visitor'.unsafeGetters]_vars

\* The descriptor has a getter, and each getter it has is the sole return of
\* a member access.
HasSafeGetter(descriptor) ==
    /\ GettersOf(descriptor) # {}
    /\ \A g \in GettersOf(descriptor) : SoleReturnOfMember(g)

HasValue(descriptor) ==
    \E i \in DOMAIN descriptor.List : KeyOf(descriptor.List[i]) = ValueName

\* C13: entering Object.defineProperty(exports|module.exports, NAME, D) for a
\* NAME not yet marked unsafe: when D has a safe getter and enumerable: false,
\* the call leaves NAME as it was in the exports and marks nothing unsafe;
\* otherwise NAME is exported when D has a value or a safe getter, a value
\* with enumerable: false included.
DescriptorDecidesExport ==
    [][(/\ epc = "walk" /\ todo # <<>>
        /\ IsDefineOnExports(Head(todo))
        /\ DefinedName(Head(todo)) \notin visitor.unsafeGetters) =>
            LET name == DefinedName(Head(todo))
                D == Head(todo).Args[3]
            IN  IF HasSafeGetter(D) /\ HasEnumerableFalse(D)
                THEN /\ name \in visitor'.exports <=> name \in visitor.exports
                     /\ visitor'.unsafeGetters = visitor.unsafeGetters
                ELSE (HasValue(D) \/ HasSafeGetter(D)) => name \in visitor'.exports]_vars

(***************************************************************************)
(* Properties of the walk and the scaffolding of RewriteRequires.          *)
(***************************************************************************)
\* C14: the paths the walk has recorded when RewriteRequires returns are
\* those of the calls with exactly one argument that is a string literal
\* starting with the prefix, and no others: a call with a literal of another
\* kind, or with no or several arguments, records nothing.
RecordedIffQualifying ==
    (pc = "done" /\ err = NoError) =>
        /\ requires = Range(QualifyingPaths)
        /\ Range(pathOrder) = Range(QualifyingPaths)

\* The statements of the source that are one qualifying call whose callee is
\* no identifier.
IsMemberCall(stmt) ==
    LET calls == CallNodes(Lex(stmt, 0), 1) IN
    /\ Len(calls) = 1
    /\ IsQualifying(calls[1])
    /\ calls[1].X.kind # "Var"

\* C15: a qualifying call whose callee is no identifier has its path among
\* the imports and in the table, and its own text is in the output byte for
\* byte, whatever other calls the source holds.
MemberCallKept ==
    Rewritten =>
        \A i \in DOMAIN given.stmts :
            IsMemberCall(given.stmts[i]) =>
                LET p == extractStringLiteral(CallNodes(Lex(given.stmts[i], 0), 1)[1].Args[1]) IN
                /\ Occurrences(output, ImportOf(p)) # {}
                /\ Occurrences(output, EntryOf(p)) # {}
                /\ Occurrences(output, given.stmts[i]) # {}

(***************************************************************************)
(* Properties of pathToImportName.                                         *)
(***************************************************************************)
\* The last non-empty segment of a path between its slashes; "module" when
\* it has none.
LastSegment(path) ==
    LET ends == {b \in DOMAIN path : path[b] # SLASH /\ (b = Len(path) \/ path[b + 1] = SLASH)}
        b == CHOOSE x \in ends : \A y \in ends : y <= x
        a == CHOOSE x \in 1..b :
                /\ \A j \in x..b : path[j] # SLASH
                /\ x = 1 \/ path[x - 1] = SLASH
    IN  IF ends = {} THEN ModuleName ELSE SubSeq(path, a, b)

\* The characters of a text, each with the bytes that encode it.
RECURSIVE CharsFrom(_, _)
CharsFrom(text, i) ==
    IF i > Len(text) THEN <<>>
    ELSE <<SubSeq(text, i, i + RuneLen(text, i) - 1)>> \o CharsFrom(text, i + RuneLen(text, i))

\* A segment with each character outside [A-Za-z0-9_] replaced by _, and a
\* _ in front when that starts with a digit.
Sanitised(segment) ==
    LET chars == CharsFrom(segment, 1)
        plain == Concat([k \in DOMAIN chars |->
                            IF Len(chars[k]) = 1 /\ chars[k][1] \in NameBytes
                            THEN chars[k] ELSE <<USCORE>>])
    IN  IF plain # <<>> /\ plain[1] \in Digits THEN <<USCORE>> \o plain ELSE plain

\* [A-Za-z_][A-Za-z0-9_]*
IsIdentifier(name) ==
    /\ name # <<>>
    /\ name[1] \in Lower \cup Upper \cup {USCORE}
    /\ \A i \in DOMAIN name : name[i] \in NameBytes

\* __cjs_import_core__
ImportNameCore == ImportNameHead \o T(<<"c", "o", "r", "e", "_", "_">>)

\* C16: pathToImportName returns __cjs_import_ + N + __, N being the last
\* non-empty segment of the path ("module" without one) with each character
\* outside [A-Za-z0-9_] replaced by _ and a _ in front of a leading digit; the
\* name is an identifier, and that of /node_modules/@babel/core is
\* __cjs_import_core__.
ImportNameFromLastSegment ==
    npc = "done" =>
        /\ nname = ImportNameHead \o Sanitised(LastSegment(npath)) \o <<USCORE, USCORE>>
        /\ IsIdentifier(nname)
        /\ npath = ScopedPath => nname = ImportNameCore

\* C16: the name of the path 1@/ is returned: its last non-empty segment
\* starts with a digit, holds a character that is replaced, and is followed
\* by a slash.
ImportNameOfDigitSegment ==
    /\ npc = "done"
    /\ npath = T(<<"1", "@", "/">>)
    /\ nname = ImportNameHead \o T(<<"_", "1", "_", "_", "_">>)

(***************************************************************************)
(* Properties of unescapeJSString.                                         *)
(***************************************************************************)
IsHexDigit(b) == b \in Digits \cup HexLetters \cup HexCapitals

\* The n bytes of s after offset from are hexadecimal digits.
HexRun(s, from, n) ==
    /\ from + n <= Len(s)
    /\ \A k \in 1..n : IsHexDigit(s[from + k])

\* At offset i of s stands \x with two hexadecimal digits after it.
WellFormedHex(s, i) == HexRun(s, i + 2, 2)

\* At offset i of s stands \u with four hexadecimal digits after it, or with
\* a group of hexadecimal digits in braces.
WellFormedUnicode(s, i) ==
    \/ HexRun(s, i + 2, 4)
    \/ /\ i + 2 < Len(s)
       /\ s[i + 3] = B("{")
       /\ \E e \in (i + 5)..Len(s) :
            /\ s[e] = B("}")
            /\ \A k \in (i + 4)..(e - 1) : IsHexDigit(s[k])

\* C17: a turn of the loop at \x that is not followed by two hexadecimal
\* digits appends the character x and goes on after the x; a turn at \u that
\* is followed neither by four hexadecimal digits nor by a closed group of
\* them in braces appends the character u and goes on after the u.
MalformedEscapeKept ==
    [][(upc = "loop" /\ ui + 1 < Len(us) /\ us[ui + 1] = BSL) =>
        /\ (us[ui + 2] = B("x") /\ ~WellFormedHex(us, ui))
                => (uresult' = uresult \o <<B("x")>> /\ ui' = ui + 2)
        /\ (us[ui + 2] = B("u") /\ ~WellFormedUnicode(us, ui))
                => (uresult' = uresult \o <<B("u")>> /\ ui' = ui + 2)]_vars

(***************************************************************************)
(* Properties of the paths of RewriteRequires.                             *)
(***************************************************************************)
\* The value of a string literal: its text without the quotes, the escape
\* sequences decoded.
DecodedValue(lit) == unescapeJSString(Slice(lit.data, 1, Len(lit.data) - 1))

\* The calls of the source with one argument that is a string literal.
StringCalls ==
    SelectSeq(ParsedSource.nodes,
              LAMBDA n : /\ n.kind = "CallExpr"
                         /\ Len(n.Args) = 1
                         /\ n.Args[1].kind = "LiteralExpr"
                         /\ n.Args[1].tt = "String")

\* C18: the path of a call is the decoded value of its string literal: each
\* call whose decoded value starts with the prefix has its import statement
\* from that value and its entry of the table under that value, and the
\* paths recorded are those values.
PathsAreDecoded ==
    Rewritten =>
        LET decoded == {DecodedValue(StringCalls[i].Args[1]) : i \in DOMAIN StringCalls}
            inScope == {p \in decoded : HasPrefix(p, prefix)}
        IN  /\ requires = inScope
            /\ \A p \in inScope :
                /\ Occurrences(output, ImportOf(p)) # {}
                /\ Occurrences(output, EntryOf(p)) # {}

\* The name the claims give the path: that of its last segment.
SegmentName(p) == ImportNameHead \o Sanitised(LastSegment(p)) \o <<USCORE, USCORE>>

\* C19: two distinct paths discovered whose last segments sanitise to the
\* same text are both imported under that one name, and both entries of the
\* table map to it: nothing tells the two bindings apart.
CollidingPathsShareName ==
    (pc = "done" /\ err = NoError /\ requires # {}) =>
        \A p, q \in requires :
            (p # q /\ Sanitised(LastSegment(p)) = Sanitised(LastSegment(q))) =>
                LET name == SegmentName(p) IN
                /\ Occurrences(output, ImportKw \o name \o FromKw \o Quote(p) \o <<NL>>) # {}
                /\ Occurrences(output, ImportKw \o name \o FromKw \o Quote(q) \o <<NL>>) # {}
                /\ Occurrences(output, Quote(p) \o <<B(":"), B(" ")>> \o name \o <<B(",")>>) # {}
                /\ Occurrences(output, Quote(q) \o <<B(":"), B(" ")>> \o name \o <<B(",")>>) # {}

\* C19: /p/a and /p/b/a were both discovered, and the output imports twice
\* under the name __cjs_import_a__.
TwoImportsOfOneName ==
    /\ Rewritten
    /\ round = "first"
    /\ Range(pathOrder) = {T(<<"/", "p", "/", "a">>), T(<<"/", "p", "/", "b", "/", "a">>)}
    /\ Cardinality(Occurrences(output,
                                ImportKw \o ImportNameHead \o T(<<"a", "_", "_">>) \o FromKw)) = 2

(***************************************************************************)
(* Properties of ParseExports over several programs.                       *)
(***************************************************************************)
\* C20: ParseExports run on the statements of a first program in another
\* order, or with one of them written once more, returns the names it
\* returned for the first program.
OrderIndependent ==
    (epc = "done" /\ eround # "first") => result = efirst

\* C20: exports.a = 1 was moved in front of the call that gives a an unsafe
\* getter, and the names returned are again without a.
AssignmentMovedBeforeUnsafe ==
    /\ epc = "done"
    /\ eround = "permuted"
    /\ parsed.ast = <<AssignDot, DefineUnsafe>>
    /\ result = efirst
    /\ NameA \notin Range(result.names)

(***************************************************************************)
(* Properties of the substitution of RewriteRequires.                      *)
(***************************************************************************)
\* The statements of the source that hold a call the walk records: a
\* qualifying call whose callee is an identifier.
HoldsRecordedCall(stmt) ==
    LET calls == CallNodes(Lex(stmt, 0), 1) IN
    \E i \in DOMAIN calls : IsQualifying(calls[i]) /\ calls[i].X.kind = "Var"

\* How many times __cjs_require__( occurs in the body emitted beyond the
\* times it occurred in the body given.
IntroducedRequireCalls ==
    Cardinality(Occurrences(EmittedBody, RequireCall))
        - Cardinality(Occurrences(body, RequireCall))

\* C21: the substitution changes the body only at the calls the walk has
\* recorded: as many __cjs_require__( are introduced as there are recorded
\* calls, and each statement that holds no recorded call (a string literal
\* with the text of a call, a longer identifier that ends in a recorded
\* name, a member call) is in the emitted body byte for byte.
SubstitutionOnlyAtRecordedCalls ==
    Rewritten =>
        /\ IntroducedRequireCalls = Len(requireCalls)
        /\ \A i \in DOMAIN given.stmts :
            ~HoldsRecordedCall(given.stmts[i])
                => Occurrences(EmittedBody, given.stmts[i]) # {}

(***************************************************************************)
(* Properties of unescapeJSString on text without escapes.                 *)
(***************************************************************************)
\* The decoder has returned for a content that holds no backslash, and
\* what it returned is that content, byte for byte.
PlainContentKept ==
    (upc = "done" /\ BSL \notin Range(us)) => uresult = us

\* Each turn of the loop goes on from a greater offset, none past the end
\* of the content.
IndexAdvances ==
    [][upc = "loop" => (ui' = ui \/ (ui' > ui /\ ui' <= Len(us)))]_vars

\* C22: the decoder returns a content without backslash as it is, bytes of
\* characters outside ASCII included, and on every content each turn of its
\* loop moves the offset forward, so that the loop ends with a result.
DecoderKeepsPlainContent ==
    []PlainContentKept /\ IndexAdvances

====
